---- MODULE Spec2Model ----
(***************************************************************************)
(* A model of the fever_smart integration:                                 *)
(*   sensor.py       the translation of sensor updates and the sensor     *)
(*                   entities' identity,                                   *)
(*   coordinator.py  the coordinator's callback registration,              *)
(*   config_flow.py  the Bluetooth-discovery and user config flows.        *)
(* Each part has its own specification over its own variables; the other   *)
(* parts' variables keep their initial values.                             *)
(***************************************************************************)
EXTENDS Integers, FiniteSets, Sequences, TLC

VARIABLES
    \* sensor.py, sensor_update_to_bluetooth_data_update
    t_pc,            \* "idle" | "input" | "done" | "raised"
    sensor_update,   \* the SensorUpdate handed to the function
    data_update,     \* the PassiveBluetoothDataUpdate it returned
    \* sensor.py, FeverSmartBluetoothSensorEntity
    entities,        \* the entities of the running instance
    uid_history,     \* every <<entity_key, unique_id>> ever assigned, over all runs
    restarts,        \* how many times the instance was restarted
    \* coordinator.py
    coordinators,    \* address -> [started, _on_stop, _available]
    callbacks,       \* the advertisement callbacks registered with the Bluetooth manager
    trackers,        \* the unavailability trackers registered with the Bluetooth manager
    handled,         \* <<coordinator, advertisement>>: calls of _async_handle_bluetooth_event
    seen,            \* <<coordinator, advertisement>>: dispatched while the coordinator was started
    n_adverts,       \* advertisements dispatched so far
    \* config_flow.py
    entries,         \* the config entries of the integration
    flows,           \* flow id -> the ConfigFlow object, its context and its last result
    discovered       \* the service infos async_discovered_service_info returns

sensorVars == <<t_pc, sensor_update, data_update>>
entityVars == <<entities, uid_history, restarts>>
coordVars == <<coordinators, callbacks, trackers, handled, seen, n_adverts>>
flowVars == <<entries, flows, discovered>>
vars == <<t_pc, sensor_update, data_update, entities, uid_history, restarts,
          coordinators, callbacks, trackers, handled, seen, n_adverts,
          entries, flows, discovered>>

----------------------------------------------------------------------------
(* Python values *)

\* An Optional[...] value: None is the empty tuple, a value v is <<v>>.
None == <<>>
Some(v) == <<v>>

\* str(x) of an Optional[str], as an f-string formats it: f"{None}" is "None".
FormatStr(o) == IF o = None THEN "None" ELSE o[1]

\* The empty dict.
EmptyDict == [x \in {} |-> x]

DOMAIN_NAME == "fever_smart"

----------------------------------------------------------------------------
(* Bounds and input sets *)

MaxSensors == 2      \* device keys of one sensor update
MaxEntities == 2     \* entities alive in one run
MaxRestarts == 1     \* restarts of the instance
MaxAdverts == 3      \* advertisements dispatched to the coordinators
MaxFlows == 3        \* config flows started

\* device_id of a DeviceKey: None for the primary device, or a string.
DeviceIds == {None, Some("None"), Some("fs"), Some("fs-1")}
SensorKeys == {"temperature", "1-temperature"}
DeviceKeys == [key : SensorKeys, device_id : DeviceIds]

\* sensor_state_data.SensorDescription: (device_class, native_unit_of_measurement)
InputDescriptions ==
    { [device_class |-> Some("temperature"), native_unit_of_measurement |-> Some("Celsius")],
      [device_class |-> Some("battery"), native_unit_of_measurement |-> Some("%")],
      [device_class |-> Some("signal_strength"), native_unit_of_measurement |-> Some("dBm")],
      [device_class |-> Some("humidity"), native_unit_of_measurement |-> Some("%")],
      [device_class |-> Some("temperature"), native_unit_of_measurement |-> None],
      [device_class |-> None, native_unit_of_measurement |-> None] }

\* sensor_state_data.SensorValue
InputValues == { [name |-> "Reading", native_value |-> Some(37)] }

\* sensor_state_data.SensorDeviceInfo
InputDeviceInfos ==
    { [name |-> None, manufacturer |-> None, model |-> None, sw_version |-> None],
      [name |-> Some("Fever Smart"), manufacturer |-> Some("Nurofen"),
       model |-> Some("FS"), sw_version |-> Some("1")] }

\* The devices dict of a sensor update: empty, or the primary device alone.
InputDevices == {EmptyDict} \cup {[d \in {None} |-> i] : i \in InputDeviceInfos}

\* The address of the coordinator (one per config entry) a processor hangs on.
Addresses == {"AA:01", "BB:02"}
NativeValues == {36, 38}

----------------------------------------------------------------------------
(* sensor.py *)

SensorEntityDescription(dc, unit, enabled, category) ==
    [ key |-> dc \o "_" \o unit,
      device_class |-> dc,
      native_unit_of_measurement |-> unit,
      state_class |-> "measurement",
      entity_registry_enabled_default |-> enabled,
      entity_category |-> category ]

\* SENSOR_DESCRIPTIONS without its signal-strength entry.
SensorDescriptionsNoSignal ==
    LET keys == { <<"temperature", Some("Celsius")>>,
                  <<"battery", Some("%")>> }
    IN [ k \in keys |-> SensorEntityDescription(k[1], k[2][1], TRUE, None) ]

SENSOR_DESCRIPTIONS ==
    LET keys == { <<"temperature", Some("Celsius")>>,
                  <<"battery", Some("%")>>,
                  <<"signal_strength", Some("dBm")>> }
    IN [ k \in keys |->
           IF k[1] = "signal_strength"
           THEN SensorEntityDescription(k[1], k[2][1], FALSE, Some("diagnostic"))
           ELSE SensorEntityDescription(k[1], k[2][1], TRUE, None) ]

PassiveBluetoothEntityKey(key, device_id) == [key |-> key, device_id |-> device_id]

_device_key_to_bluetooth_entity_key(device_key) ==
    PassiveBluetoothEntityKey(device_key.key, device_key.device_id)

\* _to_sensor_key asserts that the description has a device class.
ToSensorKeyAsserts(description) == description.device_class # None

_to_sensor_key(description) ==
    <<description.device_class[1], description.native_unit_of_measurement>>

sensor_device_info_to_hass_device_info(sensor_device_info, device_id) ==
    [ name |-> sensor_device_info.name,
      manufacturer |-> sensor_device_info.manufacturer,
      model |-> sensor_device_info.model,
      sw_version |-> sensor_device_info.sw_version,
      identifiers |-> {Some(DOMAIN_NAME), device_id} ]

\* The keys {_device_key_to_bluetooth_entity_key(device_key) for device_key in d}
\* of a dict comprehension, and the device key an entity key comes from (the
\* conversion is injective, so no two device keys write the same entry).
EntityKeys(device_keys) ==
    {_device_key_to_bluetooth_entity_key(dk) : dk \in device_keys}
DeviceKeyOf(entity_key, device_keys) ==
    CHOOSE dk \in device_keys : _device_key_to_bluetooth_entity_key(dk) = entity_key

\* Whether sensor_update_to_bluetooth_data_update raises: the assertion of
\* _to_sensor_key fails on a description without a device class.
SensorUpdateRaises(update) ==
    \E dk \in DOMAIN update.entity_descriptions :
        ~ToSensorKeyAsserts(update.entity_descriptions[dk])

SupportedDescriptionKeys(update) ==
    { dk \in DOMAIN update.entity_descriptions :
        _to_sensor_key(update.entity_descriptions[dk]) \in DOMAIN SENSOR_DESCRIPTIONS }

sensor_update_to_bluetooth_data_update(update) ==
    LET described == SupportedDescriptionKeys(update)
        valued == DOMAIN update.entity_values
    IN [ devices |->
             [ device_id \in DOMAIN update.devices |->
                 sensor_device_info_to_hass_device_info(update.devices[device_id],
                                                        device_id) ],
         entity_descriptions |->
             [ ek \in EntityKeys(described) |->
                 SENSOR_DESCRIPTIONS[
                     _to_sensor_key(update.entity_descriptions[DeviceKeyOf(ek, described)])] ],
         entity_data |->
             [ ek \in EntityKeys(valued) |->
                 update.entity_values[DeviceKeyOf(ek, valued)].native_value ],
         entity_names |->
             [ ek \in EntityKeys(valued) |->
                 update.entity_values[DeviceKeyOf(ek, valued)].name ] ]

\* A sensor update as the parser hands it over: at most MaxSensors device keys,
\* each with a description, a value, or both.
SensorUpdate(devs, ds, vs) ==
    [devices |-> devs, entity_descriptions |-> ds, entity_values |-> vs]
KeySets == {s \in SUBSET DeviceKeys : Cardinality(s) <= MaxSensors}

NoUpdate == [devices |-> EmptyDict, entity_descriptions |-> EmptyDict,
             entity_data |-> EmptyDict, entity_names |-> EmptyDict]
NoSensorUpdate == [devices |-> EmptyDict, entity_descriptions |-> EmptyDict,
                   entity_values |-> EmptyDict]

\* The call sensor_update_to_bluetooth_data_update(sensor_update).
Translate ==
    /\ t_pc = "input"
    /\ IF SensorUpdateRaises(sensor_update)
       THEN /\ t_pc' = "raised"
            /\ data_update' = data_update
       ELSE /\ t_pc' = "done"
            /\ data_update' = sensor_update_to_bluetooth_data_update(sensor_update)
    /\ UNCHANGED <<sensor_update, entityVars, coordVars, flowVars>>

InitEntityIdle == entities = {} /\ uid_history = {} /\ restarts = 0
InitTranslateIdle == t_pc = "idle" /\ sensor_update = NoSensorUpdate /\ data_update = NoUpdate

InitCoordIdle ==
    /\ coordinators = [a \in Addresses |->
                         [started |-> FALSE, _on_stop |-> <<>>, _available |-> FALSE]]
    /\ callbacks = {} /\ trackers = {} /\ handled = {} /\ seen = {} /\ n_adverts = 0

InitFlowIdle == entries = {} /\ flows = <<>> /\ discovered = {}

InitTranslate ==
    /\ InitCoordIdle
    /\ InitFlowIdle
    /\ t_pc = "input"
    /\ \E ks \in KeySets, devs \in InputDevices :
         \E dd \in SUBSET ks :
           \E vd \in {s \in SUBSET ks : s \cup dd = ks} :
             \E ds \in [dd -> InputDescriptions], vs \in [vd -> InputValues] :
               sensor_update = SensorUpdate(devs, ds, vs)
    /\ data_update = NoUpdate
    /\ InitEntityIdle

NextTranslate == Translate

SpecTranslate == InitTranslate /\ [][NextTranslate]_vars

----------------------------------------------------------------------------
(* sensor.py: the sensor entities *)

\* A variant of FeverSmartBluetoothSensorEntity.__init__ that builds the unique
\* ID from the address of the processor's coordinator, as the base class does.
AddressedSensorEntity(processor, entity_key, description, native_value) ==
    [ processor |-> processor,
      entity_key |-> entity_key,
      description |-> description.key,
      native_value |-> native_value,
      device_info |-> [identifiers |-> {<<DOMAIN_NAME, FormatStr(entity_key.device_id)>>},
                       name |-> entity_key.device_id],
      unique_id |-> processor \o "-" \o entity_key.key ]

\* FeverSmartBluetoothSensorEntity.__init__: the entity of an entity key on a
\* processor; native_value is what the processor holds for the key.
FeverSmartBluetoothSensorEntity(processor, entity_key, description, native_value) ==
    [ processor |-> processor,
      entity_key |-> entity_key,
      description |-> description.key,
      native_value |-> native_value,
      device_info |-> [identifiers |-> {<<DOMAIN_NAME, FormatStr(entity_key.device_id)>>},
                       name |-> entity_key.device_id],
      unique_id |-> FormatStr(entity_key.device_id) \o "-" \o entity_key.key ]

\* The description the data update carries for the keys the entities are made of.
SensorEntityDescriptions == {SENSOR_DESCRIPTIONS[<<"temperature", Some("Celsius")>>]}

\* The entity listener registered by async_setup_entry: a data update of the
\* processor of one coordinator brings an entity key the processor has no entity
\* for, and the entity class is instantiated for it.
AddEntity(processor, device_key, description, native_value) ==
    LET entity_key == _device_key_to_bluetooth_entity_key(device_key)
        entity == FeverSmartBluetoothSensorEntity(processor, entity_key,
                                                  description, native_value)
    IN /\ Cardinality(entities) < MaxEntities
       /\ ~\E e \in entities : e.processor = processor /\ e.entity_key = entity_key
       /\ entities' = entities \cup {entity}
       /\ uid_history' = uid_history \cup {<<entity_key, entity.unique_id>>}
       /\ UNCHANGED <<restarts, sensorVars, coordVars, flowVars>>

\* The instance restarts: the entities are gone and are created again from the
\* advertisements that follow.
Restart ==
    /\ restarts < MaxRestarts
    /\ restarts' = restarts + 1
    /\ entities' = {}
    /\ UNCHANGED <<uid_history, sensorVars, coordVars, flowVars>>

InitEntity == InitEntityIdle /\ InitTranslateIdle /\ InitCoordIdle /\ InitFlowIdle

NextEntity ==
    \/ \E a \in Addresses, dk \in DeviceKeys, d \in SensorEntityDescriptions,
          v \in NativeValues : AddEntity(a, dk, d, v)
    \/ Restart

SpecEntity == InitEntity /\ [][NextEntity]_vars

----------------------------------------------------------------------------
(* Claims about sensor.py *)

\* The (device_class, native_unit_of_measurement) pairs the integration exposes.
ExposedPairs ==
    { <<"temperature", "Celsius">>, <<"battery", "%">>, <<"signal_strength", "dBm">> }

IsExposed(description) ==
    /\ description.device_class # None
    /\ description.native_unit_of_measurement # None
    /\ <<description.device_class[1], description.native_unit_of_measurement[1]>>
           \in ExposedPairs

\* The result's entity_descriptions hold the entity key of an input description
\* exactly when the description's pair is exposed, with the description of that
\* pair, and hold nothing else.
DescriptionsExactlyExposed ==
    LET ins == sensor_update.entity_descriptions
        outs == data_update.entity_descriptions
    IN /\ \A dk \in DOMAIN ins :
            LET ek == _device_key_to_bluetooth_entity_key(dk)
            IN /\ (ek \in DOMAIN outs) <=> IsExposed(ins[dk])
               /\ ek \in DOMAIN outs =>
                    /\ outs[ek].device_class = ins[dk].device_class[1]
                    /\ outs[ek].native_unit_of_measurement
                          = ins[dk].native_unit_of_measurement[1]
                    /\ outs[ek].key = ins[dk].device_class[1] \o "_"
                                        \o ins[dk].native_unit_of_measurement[1]
       /\ \A ek \in DOMAIN outs :
            \E dk \in DOMAIN ins : ek = _device_key_to_bluetooth_entity_key(dk)

\* C5 as written: after sensor_update_to_bluetooth_data_update the result's
\* entity_descriptions hold exactly the exposed readings, and every entity key of
\* the result's entity_data or entity_names has an entry in entity_descriptions.
C5_AsWritten ==
    t_pc = "done" =>
        /\ DescriptionsExactlyExposed
        /\ \A ek \in (DOMAIN data_update.entity_data) \cup (DOMAIN data_update.entity_names) :
              ek \in DOMAIN data_update.entity_descriptions

\* C5 as amended: the function raises exactly when a description has no device
\* class; otherwise the result's entity_descriptions hold exactly the exposed
\* readings, and entity_data and entity_names hold the entity key of every input
\* entity value, whether or not entity_descriptions has an entry for it.
C5_OnlyDescriptionsFiltered ==
    /\ t_pc = "raised" <=>
          /\ t_pc # "input"
          /\ \E dk \in DOMAIN sensor_update.entity_descriptions :
                sensor_update.entity_descriptions[dk].device_class = None
    /\ t_pc = "done" =>
          LET eks == { _device_key_to_bluetooth_entity_key(dk) :
                         dk \in DOMAIN sensor_update.entity_values }
          IN /\ DescriptionsExactlyExposed
             /\ DOMAIN data_update.entity_data = eks
             /\ DOMAIN data_update.entity_names = eks

\* A translated update with a value whose description is not exposed next to an
\* exposed signal-strength reading.
C5_Witness ==
    /\ t_pc = "done"
    /\ \E dk \in DOMAIN sensor_update.entity_descriptions :
          /\ sensor_update.entity_descriptions[dk].device_class = Some("signal_strength")
          /\ _device_key_to_bluetooth_entity_key(dk)
                \in DOMAIN data_update.entity_descriptions
    /\ \E ek \in DOMAIN data_update.entity_data :
          ek \notin DOMAIN data_update.entity_descriptions

\* C2: the unique ID is "<device_id>-<key>" of the entity key alone: over all
\* runs, processors and values, one entity key has one unique ID.
C2_StableUniqueId ==
    /\ \A h1 \in uid_history, h2 \in uid_history : h1[1] = h2[1] => h1[2] = h2[2]
    /\ \A e \in entities :
          /\ <<e.entity_key, e.unique_id>> \in uid_history
          /\ e.unique_id = FormatStr(e.entity_key.device_id) \o "-" \o e.entity_key.key

\* After a restart, the entity key of an earlier run is alive again on another
\* processor with another value, next to its entity on the first processor.
C2_Witness ==
    /\ restarts > 0
    /\ \E e1 \in entities, e2 \in entities :
          /\ e1.entity_key = e2.entity_key
          /\ e1.processor # e2.processor
          /\ e1.native_value # e2.native_value
          /\ e1.entity_key.device_id = Some("fs")

\* C3 as written: entities with different entity keys have different unique IDs.
C3_DistinctKeysDistinctIds ==
    \A e1 \in entities, e2 \in entities :
        e1.entity_key # e2.entity_key => e1.unique_id # e2.unique_id

----------------------------------------------------------------------------
(* coordinator.py *)

FEVER_SMART_MANUFACTURER_ID == 8199
\* The manufacturer data of a device of another make.
OtherManufacturerIds == {{76}, {}}

\* The advertisements in range: two FeverSmart devices, the addresses of the two
\* coordinators, and a device of another make.
OtherAddress == "CC:03"
Adverts ==
    [ address : Addresses, manufacturer_ids : {{FEVER_SMART_MANUFACTURER_ID}},
      connectable : BOOLEAN ]
    \cup [ address : {OtherAddress}, manufacturer_ids : OtherManufacturerIds,
           connectable : BOOLEAN ]

BluetoothCallbackMatcher(address, manufacturer_id, connectable) ==
    [address |-> address, manufacturer_id |-> manufacturer_id, connectable |-> connectable]

\* Whether the Bluetooth manager hands an advertisement to a callback registered
\* with the matcher: every field the matcher sets must match, and a matcher that
\* asks for connectable devices takes no advertisement of a non-connectable one.
MatcherMatches(matcher, adv) ==
    /\ matcher.connectable => adv.connectable
    /\ matcher.address # None => matcher.address[1] = adv.address
    /\ matcher.manufacturer_id # None => matcher.manufacturer_id[1] \in adv.manufacturer_ids

\* The matcher of a coordinator that filters by nothing but connectable=False.
StartMatcherAny(address) == BluetoothCallbackMatcher(None, None, FALSE)

\* The matcher _async_start registers the advertisement callback with.
StartMatcher(address) ==
    BluetoothCallbackMatcher(None, Some(FEVER_SMART_MANUFACTURER_ID), FALSE)

\* The cancel handles async_register_callback and async_track_unavailable return.
CancelCallback(address) == [cancels |-> "callback", owner |-> address]
CancelTracker(address) == [cancels |-> "tracker", owner |-> address]

\* _async_start of the coordinator of `address`, called by async_start.
_async_start(address) ==
    /\ ~coordinators[address].started
    /\ callbacks' = callbacks \cup
          {[owner |-> address, matcher |-> StartMatcher(address)]}
    /\ trackers' = trackers \cup
          {[owner |-> address, address |-> address, connectable |-> FALSE]}
    /\ coordinators' = [coordinators EXCEPT
          ![address].started = TRUE,
          ![address]._on_stop = Append(Append(@, CancelCallback(address)),
                                       CancelTracker(address))]
    /\ UNCHANGED <<handled, seen, n_adverts, sensorVars, entityVars, flowVars>>

Range(q) == {q[i] : i \in 1..Len(q)}

\* The cancel function async_start returned: every handle of _on_stop is called
\* and _on_stop is cleared.
AsyncStop(address) ==
    LET stops == Range(coordinators[address]._on_stop)
    IN /\ coordinators[address].started
       /\ callbacks' = {cb \in callbacks : CancelCallback(cb.owner) \notin stops}
       /\ trackers' = {tr \in trackers : CancelTracker(tr.owner) \notin stops}
       /\ coordinators' = [coordinators EXCEPT ![address].started = FALSE,
                                                ![address]._on_stop = <<>>]
       /\ UNCHANGED <<handled, seen, n_adverts, sensorVars, entityVars, flowVars>>

\* The Bluetooth manager dispatches an advertisement: every registered callback
\* whose matcher matches is called, here _async_handle_bluetooth_event of the
\* owning coordinator, which marks the coordinator available.
Advertise(adv) ==
    LET called == {cb.owner : cb \in {c \in callbacks : MatcherMatches(c.matcher, adv)}}
    IN /\ n_adverts < MaxAdverts
       /\ n_adverts' = n_adverts + 1
       /\ handled' = handled \cup {<<a, adv>> : a \in called}
       /\ seen' = seen \cup {<<a, adv>> : a \in {x \in Addresses : coordinators[x].started}}
       /\ coordinators' = [a \in Addresses |->
             IF a \in called THEN [coordinators[a] EXCEPT !._available = TRUE]
             ELSE coordinators[a]]
       /\ UNCHANGED <<callbacks, trackers, sensorVars, entityVars, flowVars>>

\* The Bluetooth manager reports an address unavailable: the trackers of that
\* address call _async_handle_unavailable of their coordinator.
Unavailable(address) ==
    LET called == {tr.owner : tr \in {t \in trackers : t.address = address}}
    IN /\ \E a \in called : coordinators[a]._available
       /\ coordinators' = [a \in Addresses |->
             IF a \in called THEN [coordinators[a] EXCEPT !._available = FALSE]
             ELSE coordinators[a]]
       /\ UNCHANGED <<callbacks, trackers, handled, seen, n_adverts, sensorVars, entityVars, flowVars>>

InitCoord == InitCoordIdle /\ InitEntityIdle /\ InitTranslateIdle /\ InitFlowIdle

NextCoord ==
    \/ \E a \in Addresses : _async_start(a)
    \/ \E a \in Addresses : AsyncStop(a)
    \/ \E adv \in Adverts : Advertise(adv)
    \/ \E a \in Addresses : Unavailable(a)

SpecCoord == InitCoord /\ [][NextCoord]_vars

C9_OwnAddressOnly ==
    (\A a \in Addresses : coordinators[a].started) =>
        \A h \in handled : h[2].address = h[1]

----------------------------------------------------------------------------
(* config_flow.py *)

\* The service infos the Bluetooth integration may have discovered: two
\* FeverSmart devices and a device of another make.
ServiceInfos ==
    { [address |-> "AA:01", name |-> "FS AA", manufacturer_ids |-> {FEVER_SMART_MANUFACTURER_ID}],
      [address |-> "BB:02", name |-> "FS BB", manufacturer_ids |-> {FEVER_SMART_MANUFACTURER_ID}],
      [address |-> OtherAddress, name |-> "Other", manufacturer_ids |-> {76}] }

\* The keys a user may submit in the bluetooth_confirm form, as the schema
\* (str, stripped) hands them to the step; the empty string passes the schema.
SubmittedKeys == {"", "k1", "k2"}

\* FeverSmartAdvParser: what the parser makes of a service info. A FeverSmart
\* advertisement is supported and carries the device's own identifier.
FeverSmartAdvParser(discovery_info) ==
    IF FEVER_SMART_MANUFACTURER_ID \in discovery_info.manufacturer_ids
    THEN [ supported |-> TRUE,
           primary_device_id |-> Some(IF discovery_info.address = "AA:01"
                                      THEN "fs-1" ELSE "fs-2"),
           title |-> IF discovery_info.address = "AA:01"
                     THEN Some("Fever Smart fs-1") ELSE None,
           device_name |-> None ]
    ELSE [ supported |-> FALSE, primary_device_id |-> None,
           title |-> None, device_name |-> None ]

\* device.title or device.get_device_name() or discovery_info.name
DeviceTitle(device, discovery_info) ==
    IF device.title # None /\ device.title[1] # "" THEN device.title[1]
    ELSE IF device.device_name # None /\ device.device_name[1] # ""
         THEN device.device_name[1]
         ELSE discovery_info.name

\* The results a step returns (or the exception it raises).
NoResult ==
    [type |-> "none", reason |-> "", step_id |-> "", required |-> {},
     choices |-> {}, title |-> "", data |-> EmptyDict, update |-> None]
AsyncAbort(reason) == [NoResult EXCEPT !.type = "abort", !.reason = reason]
AsyncShowForm(step_id, required, choices) ==
    [NoResult EXCEPT !.type = "form", !.step_id = step_id,
                     !.required = required, !.choices = choices]
AsyncCreateEntry(title, data) ==
    [NoResult EXCEPT !.type = "create_entry", !.title = title, !.data = data]
Raised(exception) == [NoResult EXCEPT !.type = "raised", !.reason = exception]

\* ConfigFlow.__init__, with the context the flow manager gives the flow and
\* what the flow manager and the user did with it.
NewFlow(source, init_info) ==
    [ source |-> source,
      unique_id |-> None,                    \* context["unique_id"]
      entry_id |-> None,                     \* context.get("entry_id")
      title_placeholders |-> None,           \* context["title_placeholders"]["name"]
      _discovery_info |-> None,
      _discovered_device |-> None,
      _discovered_devices |-> EmptyDict,
      result |-> NoResult,                   \* the last step's result
      init_info |-> init_info,               \* the data the flow was started with
      key_form_shown |-> FALSE,              \* a form with a required "key" was shown
      submitted |-> None,                    \* the user input of the last form
      configured_at_start |-> FALSE,         \* see StartBluetooth
      candidates |-> {},                     \* see StartUser
      stale_submit |-> FALSE ]               \* see ConfigureUser

InProgress(f) == f.result.type = "form"

\* async_set_unique_id raises AbortFlow("already_in_progress") when another flow
\* in progress has the unique ID and raise_on_progress is set.
UniqueIdInProgress(others, unique_id) ==
    \E o \in others : InProgress(o) /\ o.unique_id = Some(unique_id)

\* _abort_if_unique_id_configured raises AbortFlow("already_configured") when an
\* entry has the flow's unique ID.
UniqueIdConfigured(ents, unique_id) ==
    \E e \in ents : e.unique_id = unique_id

\* _async_current_ids: the unique IDs of the integration's entries.
_async_current_ids(ents) == {e.unique_id[1] : e \in {x \in ents : x.unique_id # None}}

_async_get_or_create_entry(flow, key) ==
    LET data == IF key # None /\ key[1] # ""
                THEN [k \in {"key"} |-> key[1]] ELSE EmptyDict
    IN IF flow.entry_id # None
       THEN [flow |-> flow,
             result |-> [AsyncAbort("reauth_successful") EXCEPT
                            !.update = Some([entry_id |-> flow.entry_id[1], data |-> data])]]
       ELSE [flow |-> flow,
             result |-> AsyncCreateEntry(flow.title_placeholders[1], data)]

async_step_bluetooth_confirm(flow, user_input) ==
    IF flow._discovered_device = None \/ flow._discovery_info = None
    THEN [flow |-> flow, result |-> Raised("AssertionError")]
    ELSE IF user_input # None
         THEN _async_get_or_create_entry(flow, Some(user_input[1].key))
         ELSE LET title == DeviceTitle(flow._discovered_device[1], flow._discovery_info[1])
              IN [flow |-> [flow EXCEPT !.title_placeholders = Some(title)],
                  result |-> AsyncShowForm("bluetooth_confirm", {"key"}, {})]

\* async_step_bluetooth without the call of _abort_if_unique_id_configured.
AsyncStepBluetoothNoAbort(flow, discovery_info, ents, others) ==
    LET device == FeverSmartAdvParser(discovery_info)
    IN IF ~device.supported
       THEN [flow |-> flow, result |-> AsyncAbort("not_supported")]
       ELSE IF UniqueIdInProgress(others, device.primary_device_id[1])
            THEN [flow |-> flow, result |-> AsyncAbort("already_in_progress")]
            ELSE async_step_bluetooth_confirm(
                     [flow EXCEPT !.unique_id = device.primary_device_id,
                                  !._discovery_info = Some(discovery_info),
                                  !._discovered_device = Some(device)], None)

async_step_bluetooth(flow, discovery_info, ents, others) ==
    LET device == FeverSmartAdvParser(discovery_info)
    IN IF ~device.supported
       THEN [flow |-> flow, result |-> AsyncAbort("not_supported")]
       ELSE IF UniqueIdInProgress(others, device.primary_device_id[1])
            THEN [flow |-> flow, result |-> AsyncAbort("already_in_progress")]
            ELSE LET f1 == [flow EXCEPT !.unique_id = device.primary_device_id]
                 IN IF UniqueIdConfigured(ents, f1.unique_id)
                    THEN [flow |-> f1, result |-> AsyncAbort("already_configured")]
                    ELSE async_step_bluetooth_confirm(
                             [f1 EXCEPT !._discovery_info = Some(discovery_info),
                                        !._discovered_device = Some(device)], None)

\* d1 | d2 of two dicts with disjoint keys.
DictUnion(d1, d2) ==
    [k \in (DOMAIN d1) \cup (DOMAIN d2) |-> IF k \in DOMAIN d1 THEN d1[k] ELSE d2[k]]

async_step_user(flow, user_input, ents, disc) ==
    IF user_input # None
    THEN LET address == user_input[1].address
             f1 == [flow EXCEPT !.unique_id = Some(address)]
         IN IF UniqueIdConfigured(ents, f1.unique_id)
            THEN [flow |-> f1, result |-> AsyncAbort("already_configured")]
            ELSE _async_get_or_create_entry(
                     [f1 EXCEPT !.title_placeholders = Some(f1._discovered_devices[address])],
                     Some("0m0d3s2c"))
    ELSE LET current_addresses == _async_current_ids(ents)
             found == { i \in disc :
                          /\ i.address \notin current_addresses
                          /\ i.address \notin DOMAIN flow._discovered_devices
                          /\ FeverSmartAdvParser(i).supported }
             titles == [a \in {i.address : i \in found} |->
                          LET i == CHOOSE i \in found : i.address = a
                          IN DeviceTitle(FeverSmartAdvParser(i), i)]
             f1 == [flow EXCEPT !._discovered_devices = DictUnion(@, titles)]
         IN IF DOMAIN f1._discovered_devices = {}
            THEN [flow |-> f1, result |-> AsyncAbort("no_devices_found")]
            ELSE [flow |-> f1,
                  result |-> AsyncShowForm("user", {"address"}, DOMAIN f1._discovered_devices)]

\* The physical device an entry stands for, by its Bluetooth address.
DeviceConfigured(ents, address) == \E e \in ents : e.address = address

\* The flow manager takes a step's outcome: the flow keeps its result; a created
\* entry gets the flow's unique ID, replaces an entry with the same unique ID
\* and aborts the other flows in progress with that unique ID; an update of a
\* reauthentication changes the entry's data.
FinishStep(id, out, address, submitted) ==
    LET res == out.result
        f == [out.flow EXCEPT
                !.result = res,
                !.submitted = submitted,
                !.key_form_shown = @ \/ (res.type = "form" /\ "key" \in res.required)]
        created == res.type = "create_entry"
        entry == [ entry_id |-> id, unique_id |-> f.unique_id, title |-> res.title,
                   data |-> res.data, source |-> f.source, address |-> address ]
        Others(i) == IF created /\ InProgress(flows[i]) /\ flows[i].unique_id = f.unique_id
                                /\ f.unique_id # None
                     THEN [flows[i] EXCEPT !.result = AsyncAbort("already_in_progress")]
                     ELSE flows[i]
    IN /\ flows' = [i \in (DOMAIN flows) \cup {id} |-> IF i = id THEN f ELSE Others(i)]
       /\ entries' =
            IF created
            THEN {e \in entries : e.unique_id = None \/ e.unique_id # f.unique_id} \cup {entry}
            ELSE IF res.update # None
                 THEN { IF e.entry_id = res.update[1].entry_id
                        THEN [e EXCEPT !.data = res.update[1].data] ELSE e : e \in entries }
                 ELSE entries

OtherFlows(id) == {flows[i] : i \in (DOMAIN flows) \ {id}}

\* The Bluetooth integration discovers a matching device and starts a flow with
\* source "bluetooth": async_step_bluetooth(discovery_info). configured_at_start:
\* an entry had the parser's primary_device_id as its unique ID at this moment.
StartBluetooth(discovery_info) ==
    LET id == Len(flows) + 1
        flow == [NewFlow("bluetooth", Some(discovery_info)) EXCEPT
                   !.configured_at_start =
                       \E e \in entries :
                           /\ e.unique_id # None
                           /\ e.unique_id = FeverSmartAdvParser(discovery_info).primary_device_id]
    IN /\ Len(flows) < MaxFlows
       /\ discovery_info \in discovered
       /\ FinishStep(id, async_step_bluetooth(flow, discovery_info, entries, OtherFlows(id)),
                     discovery_info.address, None)
       /\ UNCHANGED <<discovered, sensorVars, entityVars, coordVars>>

\* The user starts a flow: async_step_user(None). candidates are the addresses
\* discovered and supported whose device has no entry at this moment.
StartUser ==
    LET id == Len(flows) + 1
        flow == [NewFlow("user", None) EXCEPT
                   !.candidates = { i.address : i \in
                       { x \in discovered : /\ FeverSmartAdvParser(x).supported
                                            /\ ~DeviceConfigured(entries, x.address) } }]
    IN /\ Len(flows) < MaxFlows
       /\ FinishStep(id, async_step_user(flow, None, entries, discovered), "", None)
       /\ UNCHANGED <<discovered, sensorVars, entityVars, coordVars>>

\* The user submits the bluetooth_confirm form.
ConfigureBluetoothConfirm(id, key) ==
    /\ id \in DOMAIN flows
    /\ InProgress(flows[id])
    /\ flows[id].result.step_id = "bluetooth_confirm"
    /\ FinishStep(id, async_step_bluetooth_confirm(flows[id], Some([key |-> key])),
                  flows[id].init_info[1].address, Some([key |-> key]))
    /\ UNCHANGED <<discovered, sensorVars, entityVars, coordVars>>

\* The user submits the user form with one of the addresses it offers.
\* stale_submit: the device of the address had an entry at this moment.
ConfigureUser(id, address) ==
    /\ id \in DOMAIN flows
    /\ InProgress(flows[id])
    /\ flows[id].result.step_id = "user"
    /\ address \in flows[id].result.choices
    /\ FinishStep(id,
                  async_step_user([flows[id] EXCEPT
                                     !.stale_submit = DeviceConfigured(entries, address)],
                                  Some([address |-> address]), entries, discovered),
                  address, Some([address |-> address]))
    /\ UNCHANGED <<discovered, sensorVars, entityVars, coordVars>>

InitFlow ==
    /\ entries = {}
    /\ flows = <<>>
    /\ discovered \in SUBSET ServiceInfos
    /\ InitCoordIdle /\ InitEntityIdle /\ InitTranslateIdle

NextFlow ==
    \/ \E i \in ServiceInfos : StartBluetooth(i)
    \/ StartUser
    \/ \E id \in 1..MaxFlows, k \in SubmittedKeys : ConfigureBluetoothConfirm(id, k)
    \/ \E id \in 1..MaxFlows, a \in Addresses : ConfigureUser(id, a)

SpecFlow == InitFlow /\ [][NextFlow]_vars

----------------------------------------------------------------------------
(* Claims about config_flow.py *)

FlowOf(e) == flows[e.entry_id]

\* C1 as written: every config entry was created by a flow that showed a form
\* with a required "key" field first, and the entry's data["key"] is the key
\* the user submitted.
C1_KeyAskedAndStored ==
    \A e \in entries :
        /\ FlowOf(e).key_form_shown
        /\ FlowOf(e).submitted # None
        /\ "key" \in DOMAIN FlowOf(e).submitted[1]
        /\ "key" \in DOMAIN e.data
        /\ e.data["key"] = FlowOf(e).submitted[1].key

\* C6: a Bluetooth-discovery flow aborts with not_supported exactly when the
\* parser does not support the advertisement, with no unique ID and no
\* discovery state; otherwise (unless another flow of the unique ID is in
\* progress) its unique ID is the parser's primary_device_id and it aborts when
\* an entry has that unique ID, storing nothing; only otherwise is the discovery
\* state stored and the bluetooth_confirm form shown; an entry of such a flow is
\* created only by async_step_bluetooth_confirm with user input; and the
\* assertions of async_step_bluetooth_confirm never fail.
C6_DiscoveryOrder ==
    /\ \A id \in DOMAIN flows :
        LET f == flows[id]
            device == FeverSmartAdvParser(f.init_info[1])
            stored == f._discovery_info # None /\ f._discovered_device # None
            nothing == f._discovery_info = None /\ f._discovered_device = None
        IN f.source = "bluetooth" =>
            /\ f.result.type # "raised"
            /\ (f.result = AsyncAbort("not_supported")) <=> ~device.supported
            /\ ~device.supported => f.unique_id = None /\ nothing
            /\ (device.supported /\ f.unique_id = None) =>
                  f.result = AsyncAbort("already_in_progress") /\ nothing
            /\ f.unique_id # None => f.unique_id = device.primary_device_id
            /\ f.configured_at_start =>
                  f.result.type = "abort" /\ nothing
                  /\ \A e \in entries : e.entry_id # id
            /\ f.result = AsyncAbort("already_configured") =>
                  nothing /\ UniqueIdConfigured(entries, f.unique_id)
            /\ f.result.type = "form" =>
                  /\ f.result.step_id = "bluetooth_confirm"
                  /\ f.key_form_shown /\ stored
                  /\ f._discovery_info = f.init_info
                  /\ \A e \in entries : e.entry_id # id
            /\ f.result.type = "create_entry" => f.key_form_shown /\ stored
    /\ \A e \in entries :
        e.source = "bluetooth" =>
            /\ FlowOf(e).result.type = "create_entry"
            /\ FlowOf(e).submitted # None
            /\ FlowOf(e).key_form_shown
            /\ e.unique_id = FlowOf(e).unique_id

\* A discovery flow created an entry after its form was submitted, a later
\* discovery flow of the same device aborted because the entry exists, and a
\* discovery flow of an unsupported device aborted.
C6_Witness ==
    /\ \E e \in entries : e.source = "bluetooth" /\ FlowOf(e).submitted # None
    /\ \E id \in DOMAIN flows :
          /\ flows[id].source = "bluetooth"
          /\ flows[id].result = AsyncAbort("not_supported")
    /\ \E id \in DOMAIN flows :
          /\ flows[id].source = "bluetooth"
          /\ flows[id].configured_at_start
          /\ flows[id].result = AsyncAbort("already_configured")

\* C7 as written: async_step_user without input aborts with no_devices_found
\* exactly when no discovered, supported device is left without an entry;
\* otherwise the addresses it offers are exactly those devices; and submitting
\* an address whose device has an entry by then aborts and creates no entry.
C7_OnlyUnconfiguredOffered ==
    \A id \in DOMAIN flows :
        LET f == flows[id]
        IN f.source = "user" =>
            /\ (f.result = AsyncAbort("no_devices_found")) <=> (f.candidates = {})
            /\ f.candidates # {} => DOMAIN f._discovered_devices = f.candidates
            /\ f.stale_submit =>
                  /\ f.result.type = "abort"
                  /\ \A e \in entries : e.entry_id # id

\* C8 as written: no two config entries stand for the same physical device.
C8_NoDeviceTwice ==
    \A e1 \in entries, e2 \in entries : e1.address = e2.address => e1 = e2

====
